---- MODULE Spec2Model ----
(***************************************************************************)
(* Model of src/oui.rs: the MAC text parser, the Oui prefix codec, the     *)
(* OuiDb text parser and the longest-prefix search.                        *)
(*                                                                         *)
(* Strings are sequences of one-character strings.  A u64 is its 8 bytes    *)
(* (byte 0 the least significant), so every operation keeps its 64-bit     *)
(* width.  A MacAddress is a sequence of 6 octets.                         *)
(* Result values are records [kind |-> "Ok" | "Err" | "Panic", ...].       *)
(***************************************************************************)
EXTENDS Integers, Sequences, FiniteSets, TLC

VARIABLES
    debug_assertions, \* build profile: debug assertions and overflow checks on
    pc,               \* which operation ran last / position inside search_entry
    arg,              \* the argument(s) of the last pure operation
    ret,              \* the value the last operation produced
    txt,              \* the text given to parse_from_string
    db,               \* Result<OuiDb, ParseOuiDbError> of parse_from_string(txt)
    db2,              \* the same for a permutation of the lines of txt
    mac,              \* search_entry: the MacAddress argument
    base_i,           \* search_entry: the index the binary search gave
    i,                \* search_entry: the loop index
    examined          \* search_entry: the indices the loop has looked at

vars == <<debug_assertions, pc, arg, ret, txt, db, db2, mac, base_i, i, examined>>

----------------------------------------------------------------------------
(* Bounds of the model *)

\* longest database text of DataLines, in lines
MaxLines == 3
\* longest database text that may hold OtherLines, in lines
MaxOtherLines == 2
\* longest MAC text, in pieces of MacPieces
MaxPieces == 3

----------------------------------------------------------------------------
(* Program constants *)

\* SmallString<[u8; 12]>: inline capacity of the digit buffer
RAW_CAPACITY == 12
\* eui48::EUI48LEN * 8
MAC_BITS == 48
\* width of u64
U64_BITS == 64
\* default prefix length when the text has no '/'
DEFAULT_LENGTH == 24
\* the shortest and longest prefix length from_str accepts
MIN_LENGTH == 24
MAX_LENGTH == 48
\* u8::MAX, the largest value slen.parse::<u8>() returns
U8_MAX == 255
\* length of the _fields array
FIELDS_CAPACITY == 8
\* accepted field counts
MIN_FIELDS == 2
MAX_FIELDS == 4
\* field filter: f.len() > 1
FIELD_MIN_LEN == 1
\* a top-level prefix: o.length <= 24
TOP_LEVEL_LENGTH == 24

----------------------------------------------------------------------------
(* Option, Result *)

None == <<>>
Some(x) == <<x>>
Ok(x) == [kind |-> "Ok", val |-> x]
Err(e) == [kind |-> "Err", err |-> e]
Panic == [kind |-> "Panic"]

----------------------------------------------------------------------------
(* Characters and strings *)

Digits == <<"0", "1", "2", "3", "4", "5", "6", "7", "8", "9">>
UpperHex == <<"A", "B", "C", "D", "E", "F">>
LowerHex == <<"a", "b", "c", "d", "e", "f">>

Range(f) == {f[k] : k \in DOMAIN f}

\* matches!(c, 'A'..='F' | 'a'..='f' | '0'..='9')
IsHexDigit(c) == c \in Range(Digits) \cup Range(UpperHex) \cup Range(LowerHex)

\* matches!(c, '-' | '.' | ':')
IsSeparator(c) == c \in {"-", ".", ":"}

\* char::is_whitespace, on the characters of the model
IsWhitespace(c) == c \in {" ", "\t", "\n", "\r"}

\* the value of a hexadecimal digit, as from_str_radix(_, 16) reads it
HexVal(c) ==
    IF c \in Range(Digits) THEN (CHOOSE k \in 1..10 : Digits[k] = c) - 1
    ELSE IF c \in Range(UpperHex) THEN (CHOOSE k \in 1..6 : UpperHex[k] = c) + 9
    ELSE (CHOOSE k \in 1..6 : LowerHex[k] = c) + 9

\* the value of a decimal digit
DecVal(c) == (CHOOSE k \in 1..10 : Digits[k] = c) - 1

\* str::starts_with
StartsWith(s, p) == Len(s) >= Len(p) /\ SubSeq(s, 1, Len(p)) = p

\* &s[n..]
From(s, n) == SubSeq(s, n + 1, Len(s))

\* str::trim: drop leading and trailing whitespace
trim(s) ==
    LET keep == {k \in 1..Len(s) : ~IsWhitespace(s[k])}
    IN  IF keep = {} THEN <<>>
        ELSE SubSeq(s, CHOOSE k \in keep : \A j \in keep : k <= j,
                       CHOOSE k \in keep : \A j \in keep : k >= j)

\* str::trim_matches(c): drop leading and trailing occurrences of c
trim_matches(s, c) ==
    LET keep == {k \in 1..Len(s) : s[k] # c}
    IN  IF keep = {} THEN <<>>
        ELSE SubSeq(s, CHOOSE k \in keep : \A j \in keep : k <= j,
                       CHOOSE k \in keep : \A j \in keep : k >= j)

\* str::split(c): the pieces between the occurrences of c, in order
split(s, c) ==
    LET cuts == {k \in 1..Len(s) : s[k] = c}
        n == Cardinality(cuts)
        \* position of the k-th separator; 0 before the first, Len+1 after the last
        cut(k) == IF k = 0 THEN 0
                  ELSE IF k = n + 1 THEN Len(s) + 1
                  ELSE CHOOSE p \in cuts : Cardinality({q \in cuts : q < p}) = k - 1
    IN  [k \in 1..(n + 1) |-> SubSeq(s, cut(k - 1) + 1, cut(k) - 1)]

\* str::split_once(c): None, or the text before and after the first c
split_once(s, c) ==
    LET cuts == {k \in 1..Len(s) : s[k] = c}
    IN  IF cuts = {} THEN None
        ELSE LET p == CHOOSE k \in cuts : \A j \in cuts : k <= j
             IN  Some(<<SubSeq(s, 1, p - 1), SubSeq(s, p + 1, Len(s))>>)

----------------------------------------------------------------------------
(* u64: the 8 bytes of the value, byte k weighing 256^k *)

Bytes == 0..(U64_BITS \div 8 - 1)

\* bit b of the byte x
Bit(x, b) == (x \div (2 ^ b)) % 2

\* x & y on bytes
ByteAnd(x, y) ==
    Bit(x, 0) * Bit(y, 0) + 2 * Bit(x, 1) * Bit(y, 1) + 4 * Bit(x, 2) * Bit(y, 2)
      + 8 * Bit(x, 3) * Bit(y, 3) + 16 * Bit(x, 4) * Bit(y, 4) + 32 * Bit(x, 5) * Bit(y, 5)
      + 64 * Bit(x, 6) * Bit(y, 6) + 128 * Bit(x, 7) * Bit(y, 7)

U64Zero == [k \in Bytes |-> 0]
U64One == [k \in Bytes |-> IF k = 0 THEN 1 ELSE 0]

\* bit b of the u64 a, b in 0..63
U64Bit(a, b) == Bit(a[b \div 8], b % 8)

\* a << n on u64: bits shifted past bit 63 are lost; without overflow checks
\* the amount is taken modulo the width
Shl(a, n) ==
    LET q == (n % U64_BITS) \div 8
        r == (n % U64_BITS) % 8
    IN  [k \in Bytes |->
            (IF k - q >= 0 THEN (a[k - q] * (2 ^ r)) % 256 ELSE 0)
              + (IF k - q - 1 >= 0 THEN a[k - q - 1] \div (2 ^ (8 - r)) ELSE 0)]

\* a << n panics (overflow checks) when n is not below the width
ShlOverflows(n) == n >= U64_BITS

\* a - 1 on u64, wrapping
Sub1(a) ==
    [k \in Bytes |-> IF \A j \in 0..(k - 1) : a[j] = 0 THEN (a[k] + 255) % 256 ELSE a[k]]

\* a - 1 panics (overflow checks) when a is 0
Sub1Overflows(a) == a = U64Zero

\* a & b
BitAnd(a, b) == [k \in Bytes |-> ByteAnd(a[k], b[k])]

\* a < b on u64
U64Less(a, b) ==
    \E k \in Bytes : a[k] < b[k] /\ \A j \in (k + 1)..(U64_BITS \div 8 - 1) : a[j] = b[j]

\* u64::from_str_radix(raw, 16) for a string of at most 16 hexadecimal digits
from_str_radix(raw) ==
    LET digit(p) == IF p >= 1 THEN HexVal(raw[p]) ELSE 0
    IN  [k \in Bytes |-> 16 * digit(Len(raw) - 2 * k - 1) + digit(Len(raw) - 2 * k)]

\* u64::to_be_bytes: byte 1 is the most significant
to_be_bytes(a) == [k \in 1..8 |-> a[8 - k]]

\* u64::from_be_bytes
from_be_bytes(bytes) == [k \in Bytes |-> bytes[8 - k]]

----------------------------------------------------------------------------
(* ParseMacError, parse_mac_addr_extend *)

InvalidLength(s) == [variant |-> "InvalidLength", text |-> s]
InvalidCharacter(s, c) == [variant |-> "InvalidCharacter", text |-> s, ch |-> c]

\* '0' repeated n times: &ZEROS[raw.len()..]
Zeros(n) == [k \in 1..n |-> "0"]

\* the for loop of parse_mac_addr_extend from character k on, raw being the
\* digits pushed so far: Ok(raw) at the end of the text, or the error returned
RECURSIVE ScanChars(_, _, _)
ScanChars(s, k, raw) ==
    IF k > Len(s) THEN Ok(raw)
    ELSE LET c == s[k]
         IN  IF IsHexDigit(c)
             THEN IF Len(raw) + 1 > RAW_CAPACITY
                  THEN Err(InvalidLength(s))
                  ELSE ScanChars(s, k + 1, Append(raw, c))
             ELSE IF ~IsSeparator(c)
                  THEN Err(InvalidCharacter(s, c))
                  ELSE ScanChars(s, k + 1, raw)

\* Oui::from_int
from_int(address) ==
    IF \E b \in MAC_BITS..(U64_BITS - 1) : U64Bit(address, b) = 1
    THEN Err([variant |-> "InvalidIntegerValue", value |-> address])
    ELSE Ok([address |-> address, length |-> 6 * 8])

\* Oui::as_mac
as_mac(o) == SubSeq(to_be_bytes(o.address), 3, 8)

\* Result::unwrap / expect: the value, or a panic
unwrap(r) == IF r.kind = "Ok" THEN r ELSE Panic

\* (a value computed once and used several times is the argument of a local
\* operator, so that it is written, and evaluated, once)
parse_mac_addr_extend(s0, zero_extend) ==
    LET s == IF StartsWith(s0, <<"0", "x">>) THEN From(s0, 2) ELSE s0
        AfterFromInt(oui) ==
            IF oui.kind = "Panic" THEN Panic ELSE Ok(as_mac(oui.val))
        AfterExtend(raw) ==
            IF Len(raw) < RAW_CAPACITY THEN Err(InvalidLength(s))
            ELSE AfterFromInt(unwrap(from_int(from_str_radix(raw))))
        AfterScan(scanned) ==
            IF scanned.kind = "Err" THEN scanned
            ELSE IF zero_extend
            THEN AfterExtend(scanned.val \o Zeros(RAW_CAPACITY - Len(scanned.val)))
            ELSE AfterExtend(scanned.val)
    IN  AfterScan(ScanChars(s, 1, <<>>))

\* parse_mac_addr with a fault: the short text is zero-extended
parse_mac_addr_zero_extending(s) == parse_mac_addr_extend(s, TRUE)

parse_mac_addr(s) == parse_mac_addr_extend(s, FALSE)

----------------------------------------------------------------------------
(* Oui *)

\* mask with a fault: the ones are not shifted up to the top of the 48 bits
mask_not_shifted(o) == Sub1(Shl(U64One, o.length))

\* Oui::mask
mask(o) == Shl(Sub1(Shl(U64One, o.length)), 8 * 6 - o.length)

\* the arithmetic of Oui::mask overflows: a shift by the width or more, 0 - 1,
\* or a negative 8 * EUI48LEN - length
mask_overflows(o) ==
    \/ ShlOverflows(o.length)
    \/ Sub1Overflows(Shl(U64One, o.length))
    \/ 8 * 6 - o.length < 0
    \/ ShlOverflows(8 * 6 - o.length)

\* Oui::with_length
with_length(o, len) ==
    IF len > MAC_BITS
    THEN Err([variant |-> "PrefixLengthValue", value |-> len, text |-> "Oui::set_length"])
    ELSE Ok([address |-> o.address, length |-> len])

\* Oui::contains
contains(self, other) ==
    IF self.length > other.length THEN FALSE
    ELSE BitAnd(other.address, mask(self)) = self.address

\* Oui::from_array
from_array(m) ==
    [address |-> from_be_bytes(<<0, 0, m[1], m[2], m[3], m[4], m[5], m[6]>>),
     length |-> 48]

\* Oui::from_addr
from_addr(m) == from_array(m)

\* #[derive(PartialOrd, Ord)] on Oui: address first, then length
OuiLess(a, b) ==
    \/ U64Less(a.address, b.address)
    \/ a.address = b.address /\ a.length < b.length

\* str::parse::<u8>: an optional '+', then decimal digits, at most u8::MAX
RECURSIVE DecValue(_, _)
DecValue(s, acc) ==
    IF s = <<>> THEN Ok(acc)
    ELSE IF Head(s) \notin Range(Digits) THEN Err("InvalidDigit")
    ELSE IF acc * 10 + DecVal(Head(s)) > U8_MAX THEN Err("PosOverflow")
    ELSE DecValue(Tail(s), acc * 10 + DecVal(Head(s)))

parse_u8(s) ==
    IF s = <<>> THEN Err("Empty")
    ELSE LET digits == IF Head(s) = "+" THEN Tail(s) ELSE s
         IN  IF digits = <<>> THEN Err("InvalidDigit") ELSE DecValue(digits, 0)

\* <Oui as FromStr>::from_str
from_str(s) ==
    LET AfterMac(length, oui_mac) ==
            IF oui_mac.kind = "Panic" THEN Panic
            ELSE Ok([address |-> from_addr(oui_mac.val).address, length |-> length])
        AfterLength(oui, slen) ==
            IF slen.kind = "Err"
            THEN Err([variant |-> "PrefixLengthParsing", source |-> slen.err, text |-> s])
            ELSE IF ~(slen.val \in MIN_LENGTH..MAX_LENGTH)
            THEN Err([variant |-> "PrefixLengthValue", value |-> slen.val, text |-> s])
            ELSE AfterMac(slen.val, unwrap(parse_mac_addr_extend(oui, TRUE)))
        AfterSplit(parts) ==
            IF parts = None THEN AfterLength(s, Ok(DEFAULT_LENGTH))
            ELSE AfterLength(parts[1][1], parse_u8(parts[1][2]))
    IN  AfterSplit(split_once(s, "/"))

----------------------------------------------------------------------------
(* usize *)

\* usize is 64 bits wide (a 64-bit target): an index is a u64 like the others.

\* the usize holding the small number n
usize_of(n) == [k \in Bytes |-> IF k < 3 THEN (n \div (256 ^ k)) % 256 ELSE 0]

\* usize::MAX, 2^64 - 1
USIZE_MAX == [k \in Bytes |-> 255]

\* n - 1 on usize: with overflow checks (on with debug assertions, the Cargo
\* default) 0 - 1 panics, without them it wraps to usize::MAX
usize_sub1(n, debug) ==
    IF Sub1Overflows(n) /\ debug THEN Panic ELSE Ok(Sub1(n))

\* a <= b on usize
usize_le(a, b) == a = b \/ U64Less(a, b)

----------------------------------------------------------------------------
(* OuiDb::parse_from_string *)

\* l.split('\t').filter(|f| f.len() > 1): the fields of a line that are kept
retained_fields(l) ==
    LET LongEnough(f) == Len(f) > FIELD_MIN_LEN
    IN  SelectSeq(split(l, "\t"), LongEnough)

\* the closure of the second map: one trimmed data line to (Oui, OuiMeta)
parse_line(lnum, l) ==
    LET AfterOui(fields, ouispec) ==
            IF ouispec.kind = "Panic" THEN Panic
            ELSE IF ouispec.kind = "Err"
            THEN Err([variant |-> "OuiParsing", lnum |-> lnum,
                      source |-> ouispec.err, line |-> l])
            ELSE Ok(<<ouispec.val,
                      [short |-> fields[2],
                       long |-> IF Len(fields) >= 3 THEN Some(fields[3]) ELSE None,
                       comment |-> IF Len(fields) >= 4
                                   THEN Some(trim(trim_matches(fields[4], "#")))
                                   ELSE None]>>)
        AfterTrim(fields) ==
            IF ~(Len(fields) \in MIN_FIELDS..MAX_FIELDS)
            THEN Err([variant |-> "BadFieldCount", lnum |-> lnum,
                      count |-> Len(fields), line |-> l])
            ELSE AfterOui(fields, from_str(fields[1]))
        AfterFilter(parts) ==
            IF Len(parts) > FIELDS_CAPACITY THEN Panic  \* _fields[8]: out of bounds
            ELSE AfterTrim([k \in 1..Len(parts) |-> trim(parts[k])])
    IN  AfterFilter(retained_fields(l))

\* the lines the filter keeps, as <<lnum, trimmed line>>, lnum counted from 0
data_lines(t) ==
    LET IsData(nl) == ~(nl[2] = <<>> \/ StartsWith(nl[2], <<"#">>))
        Numbered(ls) == [k \in 1..Len(ls) |-> <<k - 1, trim(ls[k])>>]
    IN  SelectSeq(Numbered(split(t, "\n")), IsData)

\* collect::<Result<Vec<_>, _>>(): the entries in order, or the first line
\* that fails (lines after it are never parsed)
RECURSIVE collect(_, _)
collect(ls, acc) ==
    LET AfterLine(r) ==
            IF r.kind = "Ok" THEN collect(Tail(ls), Append(acc, r.val)) ELSE r
    IN  IF ls = <<>> THEN Ok(acc) ELSE AfterLine(parse_line(Head(ls)[1], Head(ls)[2]))

\* one step of the stable sort: e goes after the entries whose key is not greater
sort_insert(sorted, e) ==
    LET n == Cardinality({k \in 1..Len(sorted) : ~OuiLess(e[1], sorted[k][1])})
    IN  SubSeq(sorted, 1, n) \o <<e>> \o SubSeq(sorted, n + 1, Len(sorted))

\* sort_by_key with a fault: the entries stay in the order of the text
sort_by_key_skipped(v) == v

\* v.sort_by_key(|(k, _v)| *k): stable, by (address, length)
RECURSIVE sort_by_key(_)
sort_by_key(v) ==
    IF v = <<>> THEN <<>>
    ELSE sort_insert(sort_by_key(SubSeq(v, 1, Len(v) - 1)), v[Len(v)])

\* dedup_by_key with a fault: nothing is removed
dedup_by_key_skipped(v) == v

\* v.dedup_by_key(|(k, _v)| *k): of consecutive entries with equal keys the first stays
dedup_by_key(v) ==
    LET Keep == {k \in 1..Len(v) : k = 1 \/ v[k][1] # v[k - 1][1]}
        nth(j) == CHOOSE k \in Keep : Cardinality({q \in Keep : q < k}) = j - 1
    IN  [j \in 1..Cardinality(Keep) |-> v[nth(j)]]

parse_from_string(t, debug) ==
    LET AfterSort(v) ==
            IF debug /\ Len(dedup_by_key(v)) # Len(v)
            THEN Err([variant |-> "DuplicatedEntries"])
            ELSE Ok(v)
        AfterCollect(collected) ==
            IF collected.kind # "Ok" THEN collected
            ELSE AfterSort(sort_by_key(collected.val))
    IN  AfterCollect(collect(data_lines(t), <<>>))

----------------------------------------------------------------------------
(* OuiDb::search_entry *)

\* slice::binary_search_by_key on a sorted slice: Ok(index of an equal key),
\* any of them when several are equal, or Err(insertion index); 0-based
binary_search_by_key(v, key) ==
    LET hits == {k \in 1..Len(v) : v[k][1] = key}
    IN  IF hits # {} THEN {Ok(usize_of(k - 1)) : k \in hits}
        ELSE {Err(usize_of(Cardinality({k \in 1..Len(v) : OuiLess(v[k][1], key)})))}

\* the value of base_i for one answer of the binary search, or a panic
base_index(found, debug) ==
    IF found.kind = "Ok" THEN Ok(found.val) ELSE usize_sub1(found.err, debug)

\* self.0.get(i)
get(v, n) ==
    LET at == {k \in 1..Len(v) : usize_of(k - 1) = n}
    IN  IF at = {} THEN None ELSE Some(v[CHOOSE k \in at : TRUE])

\* one iteration of the loop at index n: the value returned, the next index,
\* or a panic
loop_body(v, as_oui, n, debug) ==
    LET Decrement(next) ==
            IF next.kind = "Panic" THEN Panic ELSE [kind |-> "Continue", i |-> next.val]
        Test(e, inside) ==
            IF inside THEN [kind |-> "Return", val |-> Some(e)]
            ELSE IF ~inside /\ e[1].length <= TOP_LEVEL_LENGTH
            THEN [kind |-> "Return", val |-> None]
            ELSE Decrement(usize_sub1(n, debug))
        AfterGet(e) ==
            IF e = None THEN [kind |-> "Return", val |-> None]
            ELSE Test(e[1], contains(e[1][1], as_oui))
    IN  AfterGet(get(v, n))

\* the loop run to its end from index n
RECURSIVE run_loop(_, _, _, _)
run_loop(v, as_oui, n, debug) ==
    LET AfterBody(step) ==
            IF step.kind = "Continue" THEN run_loop(v, as_oui, step.i, debug) ELSE step
    IN  AfterBody(loop_body(v, as_oui, n, debug))

\* search_entry(mac): the outcomes it can have, one per answer of the binary
\* search; Ok(option) for a return, Panic for a panic
search_entry(v, m, debug) ==
    LET AfterLoop(r) == IF r.kind = "Panic" THEN Panic ELSE Ok(r.val)
        AfterSearch(as_oui, b) ==
            IF b.kind = "Panic" THEN Panic
            ELSE AfterLoop(run_loop(v, as_oui, b.val, debug))
        Outcomes(as_oui) ==
            {AfterSearch(as_oui, base_index(found, debug)) :
                found \in binary_search_by_key(v, as_oui)}
    IN  Outcomes(from_addr(m))

----------------------------------------------------------------------------
(* The inputs the operations are run on *)

\* pieces a MAC text is put together from
MacPieces ==
       \* 1: AA:bb:CC
    << <<"A", "A", ":", "b", "b", ":", "C", "C">>,
       \* 2: dd-EE.f0
       <<"d", "d", "-", "E", "E", ".", "f", "0">>,
       \* 3: 1
       <<"1">>,
       \* 4: 0x
       <<"0", "x">>,
       \* 5: g
       <<"g">>,
       \* 6: :
       <<":">> >>

\* the part of a prefix text before the length
OuiMacParts ==
       \* 1: AA:BB:CC
    << <<"A", "A", ":", "B", "B", ":", "C", "C">>,
       \* 2: aabbcc100000
       <<"a", "a", "b", "b", "c", "c", "1", "0", "0", "0", "0", "0">>,
       \* 3: ZZ:BB:CC
       <<"Z", "Z", ":", "B", "B", ":", "C", "C">>,
       \* 4: AA:BB:CC:10:00:00:0
       <<"A", "A", ":", "B", "B", ":", "C", "C", ":", "1", "0", ":", "0", "0", ":", "0", "0", ":", "0">>,
       \* 5: (empty)
       <<>> >>

\* the length part of a prefix text
OuiLengthParts ==
       \* 1: (empty)
    << <<>>,
       \* 2: /24
       <<"/", "2", "4">>,
       \* 3: /28
       <<"/", "2", "8">>,
       \* 4: /48
       <<"/", "4", "8">>,
       \* 5: /23
       <<"/", "2", "3">>,
       \* 6: /49
       <<"/", "4", "9">>,
       \* 7: /xx
       <<"/", "x", "x">>,
       \* 8: /
       <<"/">>,
       \* 9: /256
       <<"/", "2", "5", "6">>,
       \* 10: /+36
       <<"/", "+", "3", "6">> >>

\* lines of a database text: a /24 block, two /28 blocks in it, a /24 whose
\* address has bits below the 24th, and a second line for the first block
DataLines ==
       \* 1: AA:BB:CC<TAB>Parent
    << <<"A", "A", ":", "B", "B", ":", "C", "C", "\t", "P", "a", "r", "e", "n", "t">>,
       \* 2: AA:BB:CC:10:00:00/28<TAB>Sub1<TAB>Sub one
       <<"A", "A", ":", "B", "B", ":", "C", "C", ":", "1", "0", ":", "0", "0", ":", "0", "0", "/", "2", "8", "\t", "S", "u", "b", "1", "\t", "S", "u", "b", " ", "o", "n", "e">>,
       \* 3: AA:BB:CC:20:00:00/28<TAB>Sub2
       <<"A", "A", ":", "B", "B", ":", "C", "C", ":", "2", "0", ":", "0", "0", ":", "0", "0", "/", "2", "8", "\t", "S", "u", "b", "2">>,
       \* 4: AA:BB:CC:10:00:00/24<TAB>Odd
       <<"A", "A", ":", "B", "B", ":", "C", "C", ":", "1", "0", ":", "0", "0", ":", "0", "0", "/", "2", "4", "\t", "O", "d", "d">>,
       \* 5: AA:BB:CC<TAB>Dup<TAB>Dup long
       <<"A", "A", ":", "B", "B", ":", "C", "C", "\t", "D", "u", "p", "\t", "D", "u", "p", " ", "l", "o", "n", "g">> >>

\* further lines: with a comment field, a /48, malformed ones, a comment line,
\* a blank line
OtherLines ==
       \* 1: aa-bb-cd<TAB>Next<TAB>Next long<TAB># a note #
    << <<"a", "a", "-", "b", "b", "-", "c", "d", "\t", "N", "e", "x", "t", "\t", "N", "e", "x", "t", " ", "l", "o", "n", "g", "\t", "#", " ", "a", " ", "n", "o", "t", "e", " ", "#">>,
       \* 2: AA:BB:CC:10:00:00/48<TAB>Host<TAB><TAB>
       <<"A", "A", ":", "B", "B", ":", "C", "C", ":", "1", "0", ":", "0", "0", ":", "0", "0", "/", "4", "8", "\t", "H", "o", "s", "t", "\t", "\t">>,
       \* 3: ZZ:BB:CC<TAB>Bad
       <<"Z", "Z", ":", "B", "B", ":", "C", "C", "\t", "B", "a", "d">>,
       \* 4: AA:BB:CC/99<TAB>Bad
       <<"A", "A", ":", "B", "B", ":", "C", "C", "/", "9", "9", "\t", "B", "a", "d">>,
       \* 5: AA:BB:CE<TAB>X
       <<"A", "A", ":", "B", "B", ":", "C", "E", "\t", "X">>,
       \* 6: AA:BB:CC
       <<"A", "A", ":", "B", "B", ":", "C", "C">>,
       \* 7: AA:BB:CF<TAB>f2<TAB>f3<TAB>f4<TAB>f5
       <<"A", "A", ":", "B", "B", ":", "C", "F", "\t", "f", "2", "\t", "f", "3", "\t", "f", "4", "\t", "f", "5">>,
       \* 8: AA:BB:CF<TAB>f2<TAB>f3<TAB>f4<TAB>f5<TAB>f6<TAB>f7<TAB>f8<TAB>f9
       <<"A", "A", ":", "B", "B", ":", "C", "F", "\t", "f", "2", "\t", "f", "3", "\t", "f", "4", "\t", "f", "5", "\t", "f", "6", "\t", "f", "7", "\t", "f", "8", "\t", "f", "9">>,
       \* 9: # comment
       <<"#", " ", "c", "o", "m", "m", "e", "n", "t">>,
       \* 10:  
       <<" ">>,
       \* 11: a<TAB>b
       <<"a", "\t", "b">> >>

\* the MAC addresses looked up and used as prefix addresses
MacPool ==
    { <<170, 187, 204, 26, 0, 0>>,     \* AA:BB:CC:1A:00:00
      <<170, 187, 204, 16, 0, 0>>,     \* AA:BB:CC:10:00:00
      <<170, 187, 204, 47, 0, 1>>,     \* AA:BB:CC:2F:00:01
      <<170, 187, 204, 240, 0, 0>>,    \* AA:BB:CC:F0:00:00
      <<170, 187, 204, 0, 0, 0>>,      \* AA:BB:CC:00:00:00
      <<170, 187, 205, 0, 0, 0>>,      \* AA:BB:CD:00:00:00
      <<0, 0, 0, 0, 0, 1>>,            \* 00:00:00:00:00:01
      <<255, 255, 255, 255, 255, 255>> \* FF:FF:FF:FF:FF:FF
    }

\* the sequences of at most n elements of S
SeqsUpTo(S, n) == UNION {[1..k -> S] : k \in 0..n}

\* the concatenation of a sequence of strings
RECURSIVE Concat(_)
Concat(ss) == IF ss = <<>> THEN <<>> ELSE Head(ss) \o Concat(Tail(ss))

\* lines joined by '\n'
RECURSIVE Join(_)
Join(ls) ==
    IF ls = <<>> THEN <<>>
    ELSE IF Len(ls) = 1 THEN ls[1]
    ELSE ls[1] \o <<"\n">> \o Join(Tail(ls))

MacTexts == {Concat(ps) : ps \in SeqsUpTo(Range(MacPieces), MaxPieces)}

OuiTexts == {m \o l : m \in Range(OuiMacParts), l \in Range(OuiLengthParts)}

\* database texts: up to MaxLines of DataLines, or up to MaxOtherLines lines
\* of either kind
Texts ==
    {Join(ls) : ls \in SeqsUpTo(Range(DataLines), MaxLines)}
    \cup {Join(ls) : ls \in SeqsUpTo(Range(DataLines) \cup Range(OtherLines), MaxOtherLines)}

\* the prefix lengths Oui::with_length accepts
Lengths == 0..MAC_BITS

\* the lengths OuiContains is tried on
ContainsLengths == {0, 1, 23, 24, 25, 28, 36, 47, 48}

\* the permutations of 1..n
Orders(n) == {p \in [1..n -> 1..n] : \A a, b \in 1..n : a # b => p[a] # p[b]}

----------------------------------------------------------------------------
(* The state machine *)

Idle == <<>>

Init ==
    /\ debug_assertions \in BOOLEAN
    /\ pc = "start"
    /\ arg = Idle
    /\ ret = Idle
    /\ txt = <<>>
    /\ db = Idle
    /\ db2 = Idle
    /\ mac = Idle
    /\ base_i = Idle
    /\ i = Idle
    /\ examined = <<>>

\* parse_mac_addr_extend(s, zero_extend); parse_mac_addr(s) is the call with
\* zero_extend = false
ParseMacAddrExtend ==
    /\ pc = "start"
    /\ \E s \in MacTexts, zero_extend \in BOOLEAN :
        /\ arg' = <<s, zero_extend>>
        /\ ret' = IF zero_extend THEN parse_mac_addr_extend(s, TRUE) ELSE parse_mac_addr(s)
    /\ pc' = "parse_mac_addr_extend"
    /\ UNCHANGED <<debug_assertions, txt, db, db2, mac, base_i, i, examined>>

\* s.parse::<Oui>()
OuiFromStr ==
    /\ pc = "start"
    /\ \E s \in OuiTexts :
        /\ arg' = s
        /\ ret' = from_str(s)
    /\ pc' = "from_str"
    /\ UNCHANGED <<debug_assertions, txt, db, db2, mac, base_i, i, examined>>

\* Oui::from_addr(m).with_length(len).unwrap().mask()
OuiMask ==
    /\ pc = "start"
    /\ \E m \in MacPool, len \in Lengths :
        \E o \in {with_length(from_addr(m), len).val} :
            /\ arg' = o
            /\ ret' = [value |-> mask(o), overflow |-> mask_overflows(o)]
    /\ pc' = "mask"
    /\ UNCHANGED <<debug_assertions, txt, db, db2, mac, base_i, i, examined>>

\* self.contains(&other)
OuiContains ==
    /\ pc = "start"
    /\ \E m1, m2 \in MacPool, l1, l2 \in ContainsLengths :
        \E self \in {with_length(from_addr(m1), l1).val},
           other \in {with_length(from_addr(m2), l2).val} :
            /\ arg' = <<self, other>>
            /\ ret' = contains(self, other)
    /\ pc' = "contains"
    /\ UNCHANGED <<debug_assertions, txt, db, db2, mac, base_i, i, examined>>

\* OuiDb::parse_from_string(txt)
ParseFromString ==
    /\ pc = "start"
    /\ \E t \in Texts :
        /\ txt' = t
        /\ db' = parse_from_string(t, debug_assertions)
    /\ pc' = "parsed"
    /\ UNCHANGED <<debug_assertions, arg, ret, db2, mac, base_i, i, examined>>

\* OuiDb::parse_from_string on the lines of txt in another order
ParseShuffled ==
    /\ pc = "parsed"
    /\ db.kind = "Ok"
    /\ \E ls \in {split(txt, "\n")} :
        \E p \in Orders(Len(ls)) :
            \E t2 \in {Join([k \in 1..Len(ls) |-> ls[p[k]]])} :
                /\ arg' = t2
                /\ db2' = parse_from_string(t2, debug_assertions)
    /\ pc' = "shuffled"
    /\ UNCHANGED <<debug_assertions, ret, txt, db, mac, base_i, i, examined>>

\* search_entry(mac) up to the loop: the binary search and base_i
SearchEntry ==
    /\ pc = "parsed"
    /\ db.kind = "Ok"
    /\ \E m \in MacPool :
        \E found \in binary_search_by_key(db.val, from_addr(m)) :
            \E b \in {base_index(found, debug_assertions)} :
                /\ mac' = m
                /\ arg' = found
                /\ IF b.kind = "Panic"
                   THEN /\ pc' = "returned"
                        /\ ret' = Panic
                        /\ UNCHANGED <<base_i, i>>
                   ELSE /\ pc' = "loop"
                        /\ ret' = ret
                        /\ base_i' = b.val
                        /\ i' = b.val
    /\ examined' = <<>>
    /\ UNCHANGED <<debug_assertions, txt, db, db2>>

\* one iteration of the loop of search_entry
SearchLoop ==
    /\ pc = "loop"
    /\ \E step \in {loop_body(db.val, from_addr(mac), i, debug_assertions)} :
           IF step.kind = "Continue"
           THEN /\ i' = step.i
                /\ UNCHANGED <<pc, ret>>
           ELSE /\ pc' = "returned"
                /\ ret' = IF step.kind = "Panic" THEN Panic ELSE Ok(step.val)
                /\ i' = i
    /\ examined' = Append(examined, i)
    /\ UNCHANGED <<debug_assertions, arg, txt, db, db2, mac, base_i>>

Next ==
    \/ ParseMacAddrExtend
    \/ OuiFromStr
    \/ OuiMask
    \/ OuiContains
    \/ ParseFromString
    \/ ParseShuffled
    \/ SearchEntry
    \/ SearchLoop

Spec == Init /\ [][Next]_vars

----------------------------------------------------------------------------
(* Properties *)

\* the number of hexadecimal digits in a text
HexDigitCount(s) == Cardinality({k \in 1..Len(s) : IsHexDigit(s[k])})

\* a text without the "0x" it may start with
Stripped(s) == IF StartsWith(s, <<"0", "x">>) THEN From(s, 2) ELSE s

\* every character of the text is a hexadecimal digit or a separator
OnlyMacCharacters(s) == \A k \in 1..Len(s) : IsHexDigit(s[k]) \/ IsSeparator(s[k])

\* bit b of a mask of len leading one-bits in 48
LeadingOnes(len, b) == IF MAC_BITS - len <= b /\ b < MAC_BITS THEN 1 ELSE 0

\* the entries of a table whose prefix contains the address of the Oui a
Containing(v, a) == {k \in 1..Len(v) : contains(v[k][1], a)}

\* no two entries of a table have the same (address, length)
NoDuplicateKeys(v) == \A a, b \in 1..Len(v) : a # b => v[a][1] # v[b][1]

\* a table is in non-decreasing order of address
SortedByAddress(v) ==
    \A a, b \in 1..Len(v) : a < b => ~U64Less(v[b][1].address, v[a][1].address)

\* a table is in non-decreasing order of (address, length), the order the
\* binary search compares by
SortedByKey(v) == \A a, b \in 1..Len(v) : a < b => ~OuiLess(v[b][1], v[a][1])

\* the data lines of the text parsed so far all parse
AllLinesParse == collect(data_lines(txt), <<>>).kind = "Ok"

\* C9: for every prefix length L in 0..48, mask() is the 48-bit value with
\* exactly L leading one-bits, nothing set above bit 47, computed without
\* overflow; contains is true exactly when self.length <= other.length and
\* other.address agrees with self.address on the masked bits, self.address
\* having no other bit set.
C9_MaskAndContains ==
    /\ pc = "mask" =>
        /\ ~ret.overflow
        /\ \A b \in 0..(U64_BITS - 1) : U64Bit(ret.value, b) = LeadingOnes(arg.length, b)
    /\ pc = "contains" =>
        (ret <=> /\ arg[1].length <= arg[2].length
                 /\ \A b \in 0..(U64_BITS - 1) :
                      U64Bit(arg[1].address, b)
                        = LeadingOnes(arg[1].length, b) * U64Bit(arg[2].address, b))

\* C9 witness: the mask of a /28 has been computed: bit 20 set, bit 19 clear
C9_Witness ==
    /\ pc = "mask"
    /\ arg.length = 28
    /\ U64Bit(ret.value, 20) = 1
    /\ U64Bit(ret.value, 19) = 0

\* C8 as stated: every text with fewer than 12 hexadecimal digits makes
\* parse_mac_addr fail with InvalidLength.
C8_Original ==
    (pc = "parse_mac_addr_extend" /\ ~arg[2] /\ HexDigitCount(arg[1]) < 12) =>
        (ret.kind = "Err" /\ ret.err.variant = "InvalidLength")

\* C8 amended: every text with fewer than 12 hexadecimal digits makes
\* parse_mac_addr fail: with InvalidLength when, after an optional leading
\* "0x", every character is a hexadecimal digit or one of '-', '.', ':', and
\* with InvalidCharacter otherwise.
C8_ShortMacFails ==
    (pc = "parse_mac_addr_extend" /\ ~arg[2] /\ HexDigitCount(arg[1]) < 12) =>
        /\ ret.kind = "Err"
        /\ ret.err.variant =
             IF OnlyMacCharacters(Stripped(arg[1])) THEN "InvalidLength" ELSE "InvalidCharacter"

\* C8 witness: a text of 6 digits and separators was refused for its length
C8_Witness ==
    /\ pc = "parse_mac_addr_extend"
    /\ ~arg[2]
    /\ HexDigitCount(arg[1]) = 6
    /\ ret = Err(InvalidLength(arg[1]))

\* C6: a database parse_from_string returns is in non-decreasing order of
\* address, which is the order the binary search compares by, and, with debug
\* assertions, has no two entries with the same
\* (address, length); with debug assertions a text whose lines all parse and
\* two of which give the same (address, length) fails with DuplicatedEntries.
C6_SortedNoDuplicates ==
    /\ (db # Idle /\ db.kind = "Ok") =>
        /\ SortedByAddress(db.val)
        /\ SortedByKey(db.val)
        /\ debug_assertions => NoDuplicateKeys(db.val)
    /\ (db # Idle /\ debug_assertions /\ AllLinesParse
          /\ ~NoDuplicateKeys(collect(data_lines(txt), <<>>).val)) =>
        db = Err([variant |-> "DuplicatedEntries"])

\* C6 witness: a text of three lines in descending order of address was
\* parsed into a database
C6_Witness ==
    /\ pc = "parsed"
    /\ db.kind = "Ok"
    /\ Len(db.val) = 3
    /\ LET given == collect(data_lines(txt), <<>>).val
       IN  /\ U64Less(given[3][1].address, given[2][1].address)
           /\ U64Less(given[2][1].address, given[1][1].address)

\* C7 as stated: for a text that parses and every permutation of its lines,
\* the permuted text parses and search_entry gives the same outcome for every
\* MAC address.
C7_Original ==
    pc = "shuffled" =>
        /\ db2.kind = "Ok"
        /\ \A m \in MacPool :
             search_entry(db.val, m, debug_assertions)
               = search_entry(db2.val, m, debug_assertions)

\* C7 amended: the same, for texts in which no two data lines have the same
\* (address, length).
C7_OrderInsensitive ==
    (pc = "shuffled" /\ NoDuplicateKeys(db.val)) =>
        /\ db2.kind = "Ok"
        /\ \A m \in MacPool :
             search_entry(db.val, m, debug_assertions)
               = search_entry(db2.val, m, debug_assertions)

\* C7 witness: a text of three distinct prefixes was parsed again with its
\* lines in another order, and some address finds an entry
C7_Witness ==
    /\ pc = "shuffled"
    /\ arg # txt
    /\ Len(db.val) = 3
    /\ NoDuplicateKeys(db.val)
    /\ \E m \in MacPool :
         \E r \in search_entry(db2.val, m, debug_assertions) : r.kind = "Ok" /\ r.val # None

\* C1: when some entry of the table contains the address looked up,
\* search_entry returns an entry of the table that contains it and whose
\* length is the largest among the entries containing it.
C1_LongestMatch ==
    (pc = "returned" /\ Containing(db.val, from_addr(mac)) # {}) =>
        /\ ret.kind = "Ok"
        /\ ret.val # None
        /\ \E k \in Containing(db.val, from_addr(mac)) :
             /\ ret.val = Some(db.val[k])
             /\ \A j \in Containing(db.val, from_addr(mac)) :
                  db.val[j][1].length <= db.val[k][1].length

\* C2: search_entry never fails: on every database, the empty one included,
\* and for every address it returns Some(entry) or None; no index arithmetic
\* panics.
C2_SearchNeverPanics ==
    pc = "returned" => (ret.kind = "Ok" /\ (ret.val = None \/ Len(ret.val) = 1))

\* the MAC part of a prefix text, and whether the claim calls it invalid: a
\* character that is neither digit nor separator, or more than 12 digits
MacPart(s) == IF split_once(s, "/") = None THEN s ELSE split_once(s, "/")[1][1]
InvalidMacPart(s) ==
    ~OnlyMacCharacters(MacPart(s)) \/ HexDigitCount(MacPart(s)) > RAW_CAPACITY

\* the length part of a prefix text is absent or a number in 24..48
LengthPartFine(s) ==
    \/ split_once(s, "/") = None
    \/ LET n == parse_u8(split_once(s, "/")[1][2])
       IN  n.kind = "Ok" /\ n.val \in MIN_LENGTH..MAX_LENGTH

\* the first data line of the text that does not parse into an entry, if any
FirstFailing ==
    LET ls == data_lines(txt)
        bad == {k \in 1..Len(ls) : parse_line(ls[k][1], ls[k][2]).kind # "Ok"}
    IN  IF bad = {} THEN None ELSE Some(ls[CHOOSE k \in bad : \A j \in bad : k <= j])

\* C3: a prefix text with an invalid MAC part and an absent or valid length
\* parses to the error MacParsing; on a data line it makes parse_from_string
\* return OuiParsing with the line's number, the error and the line.  Nothing
\* panics.
C3_MacErrorIsReturned ==
    /\ (pc = "from_str" /\ InvalidMacPart(arg) /\ LengthPartFine(arg)) =>
        (ret.kind = "Err" /\ ret.err.variant = "MacParsing")
    /\ (pc = "parsed" /\ FirstFailing # None
          /\ Len(retained_fields(FirstFailing[1][2])) \in MIN_FIELDS..MAX_FIELDS
          /\ InvalidMacPart(trim(retained_fields(FirstFailing[1][2])[1]))
          /\ LengthPartFine(trim(retained_fields(FirstFailing[1][2])[1]))) =>
        /\ db.kind = "Err"
        /\ db.err.variant = "OuiParsing"
        /\ db.err.lnum = FirstFailing[1][1]
        /\ db.err.line = FirstFailing[1][2]

\* C4: a data line whose number of retained fields is outside 2..4 (0, 1, 5,
\* 6 or any larger number) makes parse_from_string return BadFieldCount with
\* the line's number, the number of fields and the line; no database is
\* returned.
C4_BadFieldCount ==
    (pc = "parsed" /\ FirstFailing # None
       /\ ~(Len(retained_fields(FirstFailing[1][2])) \in MIN_FIELDS..MAX_FIELDS)) =>
        db = Err([variant |-> "BadFieldCount",
                  lnum |-> FirstFailing[1][1],
                  count |-> Len(retained_fields(FirstFailing[1][2])),
                  line |-> FirstFailing[1][2]])

\* the tab-separated fields of a line that are not empty or whitespace only
NonBlankFields(l) ==
    LET NonBlank(f) == trim(f) # <<>>
    IN  SelectSeq(split(l, "\t"), NonBlank)

\* C5: only empty and whitespace-only fields are discarded.  A text of one
\* line, a valid prefix followed by 1 to 3 further non-empty fields, is
\* accepted; its record has the short name of field 2, the long name of
\* field 3 if there is one, and a comment exactly if there is a field 4.
C5_NonEmptyFieldsCount ==
    (pc = "parsed" /\ Len(data_lines(txt)) = 1
       /\ Len(NonBlankFields(data_lines(txt)[1][2])) \in MIN_FIELDS..MAX_FIELDS
       /\ from_str(trim(NonBlankFields(data_lines(txt)[1][2])[1])).kind = "Ok") =>
        LET fields == NonBlankFields(data_lines(txt)[1][2])
        IN  /\ db.kind = "Ok"
            /\ Len(db.val) = 1
            /\ db.val[1][2].short = trim(fields[2])
            /\ db.val[1][2].long = (IF Len(fields) >= 3 THEN Some(trim(fields[3])) ELSE None)
            /\ (db.val[1][2].comment # None) <=> (Len(fields) >= 4)

\* C10: the loop of search_entry ends by returning; until then each
\* iteration lowers the index by exactly one, so the loop looks only at
\* indices at or below the one it starts at, and at no more than n entries of
\* a table of n.
C10_LoopDecreases ==
    /\ (pc = "loop" \/ (pc = "returned" /\ examined # <<>>)) =>
        /\ usize_le(i, base_i)
        /\ \A k \in 1..Len(examined) : usize_le(examined[k], base_i)
        /\ \A k \in 1..(Len(examined) - 1) :
             /\ examined[k + 1] = Sub1(examined[k])
             /\ U64Less(examined[k + 1], examined[k])
        /\ Cardinality({k \in 1..Len(examined) : get(db.val, examined[k]) # None})
             <= Len(db.val)
    /\ (pc = "returned" /\ examined # <<>>) => ret.kind = "Ok"

====
